---------------------------- MODULE Spec2Model ----------------------------
(***************************************************************************)
(* SIP Core Home Assistant integration: the config flow (async_step_user), *)
(* the options flow (async_step_init) and the shape rules exercised by     *)
(* tests/test_config_flow.py (extension-number pattern, dict override).    *)
(*                                                                         *)
(* Python values are tagged records, so that values of different Python    *)
(* types can be compared.  A dict is a function over the fixed key         *)
(* universe Keys whose missing keys map to Absent.  A str is a sequence of *)
(* one-character strings.  Mutable top-level dict objects live in `heap`   *)
(* and are referred to by address, so aliasing and in-place mutation are   *)
(* observable.                                                             *)
(***************************************************************************)
EXTENDS Integers, Sequences, FiniteSets, TLC

VARIABLES
    heap,            \* address -> dict object (or Free)
    options,         \* address of config_entry.options
    user_input,      \* address of the mapping passed to async_step_init, NoneRef for None
    submitted,       \* by-value snapshot of what the caller submitted
    result,          \* the ConfigFlowResult returned by async_step_init
    pc,              \* "idle" | "call" | "finish" : position of the options-flow request
    base_config,     \* test_config_override: address of base_config
    override_config, \* test_config_override: address of override_config
    entries,         \* hass config entries created by the user flow
    flow_input,      \* the value passed to async_step_user
    flow_result,     \* the result returned by async_step_user
    flow_pc,         \* "idle" | "call" | "finish" : position of the user-flow request
    ext,             \* test_validate_extension_number: the string under test
    matched          \* "unset" | "yes" | "no" : outcome of pattern.match(ext)

vars == <<heap, options, user_input, submitted, result, pc, base_config,
          override_config, entries, flow_input, flow_result, flow_pc, ext, matched>>

optionsVars == <<heap, options, user_input, submitted, result, pc, base_config,
                 override_config>>
flowVars    == <<entries, flow_input, flow_result, flow_pc>>
patternVars == <<ext, matched>>

----------------------------------------------------------------------------
(* Bounds of the model *)

MaxObj == 5        \* heap addresses
MaxNumLen == 22    \* longest extension-number string enumerated

(* Program constants *)

MaxExtLen == 20            \* {1,20} in the extension regex
DefaultHeartbeat == 30000
OverrideHeartbeat == 60000

SIP_DOMAIN == "sip_core"     \* const.DOMAIN

----------------------------------------------------------------------------
(* Python values *)

Keys == {"sip_config", "config_url", "extensions", "buttons",
         "heartbeatIntervalMs", "number", "user", "password", "domain", "name"}

Absent == [kind |-> "absent"]
Free   == [kind |-> "free"]
None   == [kind |-> "none"]
Str(s)  == [kind |-> "str", s |-> s]
Num(n)  == [kind |-> "num", n |-> n]
List(xs) == [kind |-> "list", items |-> xs]
Dict(f) == [kind |-> "dict", d |-> f]

EmptyDict == Dict([k \in Keys |-> Absent])

\* {**d, k: v}
With(d, k, v) == Dict([d.d EXCEPT ![k] = v])

\* isinstance(v, dict) / isinstance(v, list) / isinstance(v, str)
IsDict(v) == v.kind = "dict"
IsList(v) == v.kind = "list"
IsStr(v)  == v.kind = "str"

\* k in d
In(k, d) == d.d[k] # Absent

\* d.get(k): None when the key is missing
Get(d, k) == IF In(k, d) THEN d.d[k] ELSE None

\* d.get(k, default)
GetOr(d, k, default) == IF In(k, d) THEN d.d[k] ELSE default

\* bool(d) for a dict: non-empty
Truthy(d) == \E k \in Keys : In(k, d)

----------------------------------------------------------------------------
(* The values submitted in the model *)

Chars(n, c) == [i \in 1..n |-> c]

S_1001        == <<"1", "0", "0", "1">>
S_ext_123     == <<"e", "x", "t", "-", "1", "2", "3">>
S_user_1      == <<"u", "s", "e", "r", "_", "1">>
S_invalid_at  == <<"i", "n", "v", "a", "l", "i", "d", "@", "e", "x", "t">>
S_ext_hash    == <<"e", "x", "t", "#", "1", "2", "3">>
S_123_invalid == <<"1", "2", "3", "-", "i", "n", "v", "a", "l", "i", "d", "-">>
S_not_array   == <<"n", "o", "t", "-", "a", "n", "-", "a", "r", "r", "a", "y">>
S_string      == <<"s", "t", "r", "i", "n", "g">>
S_user1       == <<"u", "s", "e", "r", "1">>
S_pass1       == <<"p", "a", "s", "s", "1">>
S_example     == <<"e", "x", "a", "m", "p", "l", "e", ".", "c", "o", "m">>
S_Office      == <<"O", "f", "f", "i", "c", "e">>

ExtensionEntry(number, user, password, domain) ==
    With(With(With(With(EmptyDict, "number", number), "user", user),
              "password", password), "domain", domain)

ValidEntry == ExtensionEntry(Str(S_1001), Str(S_user1), Str(S_pass1), Str(S_example))

FlowNumbers == {S_1001, <<>>, S_invalid_at, S_ext_hash, S_123_invalid,
                Chars(MaxExtLen, "a"), Chars(MaxExtLen + 1, "a")}

ExtensionEntries ==
    {With(ValidEntry, "number", Str(n)) : n \in FlowNumbers}
    \cup {With(ValidEntry, f, v) : f \in {"user", "password", "domain"},
                                   v \in {Absent, Num(1)}}

ExtChoices ==
    {Absent, Str(S_not_array), List(<<>>)}
    \cup {List(<<e>>) : e \in ExtensionEntries}
    \cup {List(<<ValidEntry, With(ValidEntry, "password", Absent)>>)}

ButtonEntry == With(With(EmptyDict, "name", Str(S_Office)), "number", Str(S_1001))

BtnChoices == {Absent, Num(123), List(<<>>), List(<<ButtonEntry>>)}

HbChoices == {Absent, Num(DefaultHeartbeat)}

SipConfiguration(e, b, h) ==
    With(With(With(EmptyDict, "extensions", e), "buttons", b), "heartbeatIntervalMs", h)

\* every extensions value beside valid buttons, every buttons and heartbeat value
\* beside valid extensions, and the documented scenarios
Configs ==
    {SipConfiguration(e, List(<<ButtonEntry>>), Num(DefaultHeartbeat)) : e \in ExtChoices}
    \cup {SipConfiguration(List(<<ValidEntry>>), b, h) : b \in BtnChoices, h \in HbChoices}
    \cup {EmptyDict,
          SipConfiguration(List(<<>>), List(<<>>), Absent),
          SipConfiguration(Str(S_not_array), List(<<>>), Absent),
          SipConfiguration(List(<<>>), Absent, Absent)}

\* what may arrive under the sip_config key
SipConfigValues == {None, Str(S_string), Num(123), List(<<>>)} \cup Configs

\* what may be passed to async_step_init as user_input
OptionInputs ==
    {None, EmptyDict, With(EmptyDict, "config_url", Str(<<>>))}
    \cup {With(EmptyDict, "sip_config", v) : v \in SipConfigValues}

----------------------------------------------------------------------------
(* Heap of top-level dict objects *)

Addr == 1..MaxObj
NoneRef == 0

\* address of the module-level object defaults.sip_config
DefaultAddr == 1

\* defaults.sip_config
sip_config == SipConfiguration(List(<<>>), List(<<>>), Num(DefaultHeartbeat))

\* the lowest free address
Alloc(h) == CHOOSE a \in Addr : h[a] = Free /\ \A b \in Addr : b < a => h[b] # Free

\* objects no longer referenced from `roots` are collected
Collect(h, roots) == [a \in Addr |-> IF a \in roots THEN h[a] ELSE Free]

\* the value a reference denotes (None for NoneRef)
Deref(h, r) == IF r = NoneRef THEN None ELSE h[r]

----------------------------------------------------------------------------
(* Flow results (homeassistant.data_entry_flow) *)

NoResult == [type |-> "none", step_id |-> "", errors |-> "", suggested_value |-> Absent,
             title |-> "", data |-> NoneRef]

\* self.async_show_form(step_id=..., data_schema=vol.Schema({vol.Required("sip_config",
\*     description={"suggested_value": ...}): ObjectSelector()}), errors=...)
async_show_form(step_id, suggested_value, errors) ==
    [type |-> "form", step_id |-> step_id, errors |-> errors,
     suggested_value |-> suggested_value, title |-> "", data |-> NoneRef]

\* self.async_create_entry(title=..., data=...): data is the object passed, not a copy
async_create_entry(title, data) ==
    [type |-> "create_entry", step_id |-> "", errors |-> "", suggested_value |-> Absent,
     title |-> title, data |-> data]

\* self.config_entry.options.get("sip_config", sip_config)
SuggestedValue(h, opts) == GetOr(h[opts], "sip_config", h[DefaultAddr])

----------------------------------------------------------------------------
(* SipCoreOptionsFlowHandler.async_step_init *)

\* A slip that applies the heartbeat default to the submitted mapping in place.
async_step_init_normalising(h, opts, ui) ==
    IF ui # NoneRef THEN
        IF ~In("sip_config", h[ui]) \/ ~IsDict(Get(h[ui], "sip_config")) THEN
            [heap |-> h,
             result |-> async_show_form("init", SuggestedValue(h, opts), "invalid_config")]
        ELSE
            [heap |-> [h EXCEPT ![ui] = With(h[ui], "sip_config",
                          With(Get(h[ui], "sip_config"), "heartbeatIntervalMs",
                               GetOr(Get(h[ui], "sip_config"), "heartbeatIntervalMs",
                                     Num(DefaultHeartbeat))))],
             result |-> async_create_entry("SIP Core", ui)]
    ELSE
        [heap |-> h, result |-> async_show_form("init", SuggestedValue(h, opts), "")]

\* A slip that only checks that the key is present, not that its value is a dict.
async_step_init_no_isinstance(h, opts, ui) ==
    IF ui # NoneRef THEN
        IF ~In("sip_config", h[ui]) THEN
            [heap |-> h,
             result |-> async_show_form("init", SuggestedValue(h, opts), "invalid_config")]
        ELSE
            [heap |-> h, result |-> async_create_entry("SIP Core", ui)]
    ELSE
        [heap |-> h, result |-> async_show_form("init", SuggestedValue(h, opts), "")]

\* A slip that stores the bare SIP configuration instead of the submitted mapping.
async_step_init_unwrapping(h, opts, ui) ==
    IF ui # NoneRef THEN
        IF ~In("sip_config", h[ui]) \/ ~IsDict(Get(h[ui], "sip_config")) THEN
            [heap |-> h,
             result |-> async_show_form("init", SuggestedValue(h, opts), "invalid_config")]
        ELSE
            [heap |-> [h EXCEPT ![ui] = Get(h[ui], "sip_config")],
             result |-> async_create_entry("SIP Core", ui)]
    ELSE
        [heap |-> h, result |-> async_show_form("init", SuggestedValue(h, opts), "")]

\* async_step_init(self, user_input): returns the heap after the call and the result.
\* h is the heap, opts the address of self.config_entry.options, ui the address of
\* user_input (NoneRef for None).
async_step_init(h, opts, ui) ==
    IF ui # NoneRef THEN
        IF ~In("sip_config", h[ui]) \/ ~IsDict(Get(h[ui], "sip_config")) THEN
            [heap |-> h,
             result |-> async_show_form("init", SuggestedValue(h, opts), "invalid_config")]
        ELSE
            [heap |-> h, result |-> async_create_entry("SIP Core", ui)]
    ELSE
        [heap |-> h, result |-> async_show_form("init", SuggestedValue(h, opts), "")]

----------------------------------------------------------------------------
(* test_config_override: override_config = {**base_config, "heartbeatIntervalMs": 60000} *)

\* A slip that updates the dict in place and returns the same object.
DictSpread_aliasing(h, base, k, v) ==
    [heap |-> [h EXCEPT ![base] = With(h[base], k, v)], ref |-> base]

\* {**h[base], k: v}: a new dict object; returns the heap after and its address
DictSpread(h, base, k, v) ==
    [heap |-> [h EXCEPT ![Alloc(h)] = With(h[base], k, v)], ref |-> Alloc(h)]

----------------------------------------------------------------------------
(* The options-flow request: the caller submits, the handler runs, the host *)
(* finishes the flow.                                                       *)

\* The host calls the step with user_input = ui (a new mapping object, or None).
\* Objects of earlier requests and of the override test are no longer referenced.
Submit(ui) ==
    /\ pc = "idle"
    /\ LET h0 == Collect(heap, {DefaultAddr, options})
       IN IF ui = None
          THEN /\ heap' = h0
               /\ user_input' = NoneRef
          ELSE /\ heap' = [h0 EXCEPT ![Alloc(h0)] = ui]
               /\ user_input' = Alloc(h0)
    /\ submitted' = ui
    /\ result' = NoResult
    /\ base_config' = NoneRef
    /\ override_config' = NoneRef
    /\ pc' = "call"
    /\ UNCHANGED <<options, flowVars, patternVars>>

\* The handler runs.
StepInit ==
    /\ pc = "call"
    /\ LET r == async_step_init(heap, options, user_input)
       IN /\ heap' = r.heap
          /\ result' = r.result
    /\ pc' = "finish"
    /\ UNCHANGED <<options, user_input, submitted, base_config, override_config,
                   flowVars, patternVars>>

\* The host finishes the flow: a create_entry result's data becomes the entry's
\* options; a form is shown again and nothing is stored.
FinishFlow ==
    /\ pc = "finish"
    /\ options' = IF result.type = "create_entry" THEN result.data ELSE options
    /\ pc' = "idle"
    /\ UNCHANGED <<heap, user_input, submitted, result, base_config, override_config,
                   flowVars, patternVars>>

\* test_config_override
test_config_override ==
    /\ pc = "idle"
    /\ base_config = NoneRef
    /\ Cardinality({a \in Addr : heap[a] = Free}) >= 2
    /\ LET b  == Alloc(heap)
           h1 == [heap EXCEPT ![b] = SipConfiguration(List(<<>>), List(<<>>),
                                                      Num(DefaultHeartbeat))]
           r  == DictSpread(h1, b, "heartbeatIntervalMs", Num(OverrideHeartbeat))
       IN /\ heap' = r.heap
          /\ base_config' = b
          /\ override_config' = r.ref
    /\ UNCHANGED <<options, user_input, submitted, result, pc, flowVars, patternVars>>

----------------------------------------------------------------------------
(* SipCoreConfigFlow.async_step_user *)

NoFlowResult == [type |-> "none", step_id |-> "", reason |-> "", title |-> "",
                 data |-> Absent]

\* async_show_form(step_id="user", data_schema=vol.Schema({vol.Optional("config_url"): str}))
flow_show_form(step_id) ==
    [type |-> "form", step_id |-> step_id, reason |-> "", title |-> "", data |-> Absent]

\* async_create_entry(title=..., data=...)
flow_create_entry(title, data) ==
    [type |-> "create_entry", step_id |-> "", reason |-> "", title |-> title, data |-> data]

\* AbortFlow(reason)
flow_abort(reason) ==
    [type |-> "abort", step_id |-> "", reason |-> reason, title |-> "", data |-> Absent]

\* self._abort_if_unique_id_configured(): an entry with the flow's unique id exists
unique_id_configured(es, unique_id) ==
    \E i \in 1..Len(es) : es[i].unique_id = unique_id

\* A slip that leaves out the already-configured check.
async_step_user_no_abort(es, ui) ==
    IF ui = None THEN
        [unique_id |-> SIP_DOMAIN, result |-> flow_show_form("user")]
    ELSE IF Truthy(ui) THEN
        [unique_id |-> SIP_DOMAIN, result |-> flow_create_entry("SIP Core", ui)]
    ELSE
        [unique_id |-> SIP_DOMAIN, result |-> flow_create_entry("SIP Core", EmptyDict)]

\* async_step_user(self, user_input): es are the existing config entries.
\* Returns the flow's unique id and the result.
async_step_user(es, ui) ==
    IF unique_id_configured(es, SIP_DOMAIN) THEN
        [unique_id |-> SIP_DOMAIN, result |-> flow_abort("already_configured")]
    ELSE IF ui = None THEN
        [unique_id |-> SIP_DOMAIN, result |-> flow_show_form("user")]
    ELSE IF Truthy(ui) THEN
        [unique_id |-> SIP_DOMAIN, result |-> flow_create_entry("SIP Core", ui)]
    ELSE
        [unique_id |-> SIP_DOMAIN, result |-> flow_create_entry("SIP Core", EmptyDict)]

\* what may be passed to async_step_user as user_input
UserInputs ==
    {None, EmptyDict, With(EmptyDict, "sip_config", sip_config)}
    \cup {With(EmptyDict, "config_url", Str(s)) : s \in FlowNumbers \cup {S_example}}

\* The host calls the user step with user_input = ui.
FlowSubmit(ui) ==
    /\ flow_pc = "idle"
    /\ flow_input' = ui
    /\ flow_result' = NoFlowResult
    /\ flow_pc' = "call"
    /\ UNCHANGED <<entries, optionsVars, patternVars>>

\* The handler runs.
StepUser ==
    /\ flow_pc = "call"
    /\ flow_result' = async_step_user(entries, flow_input).result
    /\ flow_pc' = "finish"
    /\ UNCHANGED <<entries, flow_input, optionsVars, patternVars>>

\* The host finishes the flow: a create_entry result becomes a config entry carrying
\* the flow's unique id.
FlowFinish ==
    /\ flow_pc = "finish"
    /\ entries' = IF flow_result.type = "create_entry"
                  THEN Append(entries, [unique_id |-> async_step_user(entries, flow_input).unique_id,
                                        title |-> flow_result.title,
                                        data |-> flow_result.data])
                  ELSE entries
    /\ flow_pc' = "idle"
    /\ UNCHANGED <<flow_input, flow_result, optionsVars, patternVars>>

----------------------------------------------------------------------------
(* test_validate_extension_number: re.compile(r"^[a-zA-Z0-9_-]{1,20}$").match(ext) *)

Lower == {"a", "b", "c", "d", "e", "f", "g", "h", "i", "j", "k", "l", "m",
          "n", "o", "p", "q", "r", "s", "t", "u", "v", "w", "x", "y", "z"}
Upper == {"A", "B", "C", "D", "E", "F", "G", "H", "I", "J", "K", "L", "M",
          "N", "O", "P", "Q", "R", "S", "T", "U", "V", "W", "X", "Y", "Z"}
Digit == {"0", "1", "2", "3", "4", "5", "6", "7", "8", "9"}

\* [a-zA-Z0-9_-]
ExtClass == Lower \cup Upper \cup Digit \cup {"_", "-"}

\* pattern.match(s) is not None: ^ anchors at the start, the class repeats 1 to 20
\* times, and $ matches at the end of the string or just before a final newline.
pattern_match(s) ==
    \E k \in 1..MaxExtLen :
        /\ k <= Len(s)
        /\ \A i \in 1..k : s[i] \in ExtClass
        /\ \/ k = Len(s)
           \/ k = Len(s) - 1 /\ s[Len(s)] = "\n"

valid_extensions   == {S_1001, <<"2", "0", "0", "0">>, S_ext_123, S_user_1}
invalid_extensions == {<<>>, S_invalid_at, S_ext_hash, S_123_invalid}

\* characters substituted into the enumerated strings
ProbeChars == {"Z", "7", "_", "-", "@", "#", " ", "\n"}

\* strings of a's of every length up to MaxNumLen, with at most one position replaced
PatternInputs ==
    valid_extensions \cup invalid_extensions
    \cup {Chars(n, "a") : n \in 0..MaxNumLen}
    \cup UNION {{[Chars(n, "a") EXCEPT ![i] = c] : i \in 1..n, c \in ProbeChars} :
                n \in 1..MaxNumLen}

test_validate_extension_number ==
    /\ matched = "unset"
    /\ matched' = IF pattern_match(ext) THEN "yes" ELSE "no"
    /\ UNCHANGED <<ext, optionsVars, flowVars>>

----------------------------------------------------------------------------
(* Specifications *)

InitOptions ==
    /\ heap = [a \in Addr |-> IF a = DefaultAddr THEN sip_config
                              ELSE IF a = 2 THEN EmptyDict ELSE Free]
    /\ options = 2
    /\ user_input = NoneRef
    /\ submitted = None
    /\ result = NoResult
    /\ pc = "idle"
    /\ base_config = NoneRef
    /\ override_config = NoneRef

InitFlow ==
    /\ entries = <<>>
    /\ flow_input = None
    /\ flow_result = NoFlowResult
    /\ flow_pc = "idle"

Init ==
    /\ InitOptions
    /\ InitFlow
    /\ ext = <<>>
    /\ matched = "unset"

\* the options flow and the override test
Next ==
    \/ \E ui \in OptionInputs : Submit(ui)
    \/ StepInit
    \/ FinishFlow
    \/ test_config_override

Spec == Init /\ [][Next]_vars

\* the user (initial setup) flow
NextUser ==
    \/ \E ui \in UserInputs : FlowSubmit(ui)
    \/ StepUser
    \/ FlowFinish

SpecUser == Init /\ [][NextUser]_vars

\* the extension-number pattern over the enumerated strings
InitPattern ==
    /\ InitOptions
    /\ InitFlow
    /\ ext \in PatternInputs
    /\ matched = "unset"

NextPattern == test_validate_extension_number

SpecPattern == InitPattern /\ [][NextPattern]_vars

----------------------------------------------------------------------------
(* The shape rules of tests/test_config_flow.py *)

\* valid_extensions and valid_buttons (test_validate_invalid_config_structure)
valid_structure(config) ==
    /\ In("extensions", config) /\ IsList(Get(config, "extensions"))
    /\ In("buttons", config) /\ IsList(Get(config, "buttons"))

\* has_user and has_password and has_domain (test_validate_missing_user_fields)
has_required_fields(user) ==
    /\ In("user", user) /\ IsStr(Get(user, "user"))
    /\ In("password", user) /\ IsStr(Get(user, "password"))
    /\ In("domain", user) /\ IsStr(Get(user, "domain"))

----------------------------------------------------------------------------
(* Properties *)

\* the SIP configuration the caller submitted (None when there is none)
SubmittedConfig == IF IsDict(submitted) THEN Get(submitted, "sip_config") ELSE None

\* the extension entries of the submitted configuration
SubmittedExtensions ==
    IF IsDict(SubmittedConfig) /\ IsList(Get(SubmittedConfig, "extensions"))
    THEN Get(SubmittedConfig, "extensions").items ELSE <<>>

\* a submission whose sip_config key is missing or is not a mapping
BadSubmission == IsDict(submitted) /\ ~IsDict(SubmittedConfig)

RejectedWith(r, code) == r.type = "form" /\ r.step_id = "init" /\ r.errors = code

\* C1: a submission whose sip_config is missing or is not a mapping is answered by the
\* init form with the error invalid_config, creates no entry, and neither the handler
\* nor the end of the flow changes the stored options.
C1_InvalidConfigRejected ==
    [][BadSubmission =>
         /\ pc = "call" =>
               /\ RejectedWith(result', "invalid_config")
               /\ result'.data = NoneRef
         /\ pc \in {"call", "finish"} =>
               /\ options' = options
               /\ heap'[options'] = heap[options]]_vars

C1_Witness ==
    /\ pc = "idle"
    /\ IsDict(submitted)
    /\ In("sip_config", submitted)
    /\ IsList(SubmittedConfig)
    /\ RejectedWith(result, "invalid_config")
    /\ In("sip_config", heap[options])

\* C2: when the flow of a submission ends, either the submission was accepted and the
\* entry's options are the submitted mapping, carrying the submitted SIP configuration
\* as it was submitted, or it was rejected with an error and nothing was stored;
\* never both, never neither.
C2_AcceptedPersistsSubmitted ==
    [][(pc = "finish" /\ submitted # None) =>
         \/ /\ result.type = "create_entry"
            /\ result.errors = ""
            /\ options' = result.data
            /\ heap'[options'] = submitted
            /\ Get(heap'[options'], "sip_config") = SubmittedConfig
         \/ /\ result.type = "form"
            /\ result.errors # ""
            /\ result.data = NoneRef
            /\ options' = options
            /\ heap'[options'] = heap[options]]_vars

C2_Witness ==
    /\ pc = "idle"
    /\ result.type = "create_entry"
    /\ heap[options] = submitted
    /\ IsDict(SubmittedConfig)
    /\ valid_structure(SubmittedConfig)
    /\ ~In("heartbeatIntervalMs", SubmittedConfig)

\* C3: a submitted configuration is accepted exactly when extensions and buttons are
\* both present and both sequences; otherwise it is rejected with an error.
C3_StructureEnforced ==
    (pc = "finish" /\ IsDict(SubmittedConfig)) =>
        IF valid_structure(SubmittedConfig)
        THEN result.type = "create_entry"
        ELSE result.type = "form" /\ result.errors # ""

\* C4: a configuration with an extension entry that lacks user, password or domain, or
\* holds a non-string there, is never accepted.
C4_ExtensionFieldsEnforced ==
    (pc = "finish" /\ result.type = "create_entry") =>
        \A i \in 1..Len(SubmittedExtensions) : has_required_fields(SubmittedExtensions[i])

\* a string of 1 to 20 characters, each a letter, a digit, _ or -
WellFormedNumber(v) ==
    /\ IsStr(v)
    /\ Len(v.s) \in 1..MaxExtLen
    /\ \A i \in 1..Len(v.s) : v.s[i] \in ExtClass

\* C5: an extension number is accepted exactly when it is 1 to 20 characters of
\* letters, digits, _ and -; a configuration with any other number is not accepted.
C5_NumberPatternEnforced ==
    (pc = "finish" /\ result.type = "create_entry") =>
        \A i \in 1..Len(SubmittedExtensions) :
            /\ WellFormedNumber(Get(SubmittedExtensions[i], "number"))
            /\ pattern_match(Get(SubmittedExtensions[i], "number").s)

\* C6: every string of the test's invalid_extensions fails to match the pattern.
C6_InvalidSetRejected ==
    (matched # "unset" /\ ext \in invalid_extensions) => matched = "no"

\* C7: an accepted valid configuration that omits heartbeatIntervalMs is stored with
\* heartbeatIntervalMs equal to 30000.
C7_HeartbeatDefaulted ==
    (/\ pc = "idle"
     /\ result.type = "create_entry"
     /\ valid_structure(SubmittedConfig)
     /\ ~In("heartbeatIntervalMs", SubmittedConfig)) =>
        Get(Get(heap[options], "sip_config"), "heartbeatIntervalMs") = Num(DefaultHeartbeat)

\* C8: handing an accepted result to the step a second time is accepted again and
\* yields the same data.
C8_Idempotent ==
    (pc = "finish" /\ result.type = "create_entry") =>
        LET again == async_step_init(heap, options, result.data)
        IN /\ again.result.type = "create_entry"
           /\ again.heap[again.result.data] = heap[result.data]
           /\ again.heap[again.result.data] = submitted

\* the stored options are submitted once more, as a new mapping, and accepted
C8_Witness ==
    /\ pc = "finish"
    /\ result.type = "create_entry"
    /\ user_input # options
    /\ heap[options] = submitted

\* C9: the handler changes neither the submitted mapping, nor the stored options, nor
\* the shared default sip_config, whatever it answers; and after the override the
\* copy holds 60000 while the original, a different object, still holds 30000.
C9_NoSideEffects ==
    [][/\ pc = "call" =>
            /\ user_input' = user_input
            /\ Deref(heap', user_input') = submitted
            /\ options' = options
            /\ heap'[options'] = heap[options]
            /\ heap'[DefaultAddr] = heap[DefaultAddr]
       /\ (base_config = NoneRef /\ base_config' # NoneRef) =>
            /\ override_config' # base_config'
            /\ Get(heap'[override_config'], "heartbeatIntervalMs") = Num(OverrideHeartbeat)
            /\ Get(heap'[base_config'], "heartbeatIntervalMs") = Num(DefaultHeartbeat)
            /\ \A a \in Addr : heap[a] # Free => heap'[a] = heap[a]]_vars

C9_Witness ==
    /\ pc = "idle"
    /\ result.type = "create_entry"
    /\ heap[user_input] = submitted
    /\ heap[DefaultAddr] = sip_config
    /\ base_config # NoneRef
    /\ Get(heap[base_config], "heartbeatIntervalMs") = Num(DefaultHeartbeat)
    /\ Get(heap[override_config], "heartbeatIntervalMs") = Num(OverrideHeartbeat)

\* C10: the already-configured check comes first, so at most one entry ever exists;
\* while none exists, a call without input shows the user form and creates nothing,
\* and a call with any input creates an entry whose data equals the input.
C10_SingleEntry ==
    /\ Len(entries) <= 1
    /\ (flow_pc = "finish" /\ entries # <<>>) =>
           flow_result.type = "abort" /\ flow_result.reason = "already_configured"
    /\ (flow_pc = "finish" /\ entries = <<>> /\ flow_input = None) =>
           flow_result.type = "form" /\ flow_result.step_id = "user"
    /\ (flow_pc = "finish" /\ entries = <<>> /\ flow_input # None) =>
           flow_result.type = "create_entry" /\ flow_result.data = flow_input
    /\ (flow_pc = "idle" /\ flow_result.type = "form") => entries = <<>>
    /\ (flow_pc = "idle" /\ flow_result.type = "create_entry") =>
           /\ Len(entries) = 1
           /\ entries[1].unique_id = SIP_DOMAIN
           /\ entries[1].data = flow_input

\* a second call with input arrives once the entry exists, and is aborted
C10_Witness ==
    /\ flow_pc = "idle"
    /\ Len(entries) = 1
    /\ entries[1].data = EmptyDict
    /\ flow_input # None
    /\ flow_result.type = "abort"

=============================================================================
